---- MODULE Spec2Model ----
(***************************************************************************)
(* A model of the hand-written Wayland client of src/main.go.  The file    *)
(* holds two variants of the same program: the frame-driven client (lines  *)
(* 1-437) and the client without frame callbacks (lines 439-879).  Their   *)
(* codec, object table and request writers are identical line for line;    *)
(* the variants differ in main only.                                       *)
(*                                                                         *)
(* uint32 values that take part in shifts or may use the full 32 bits are  *)
(* kept as a pair of 16-bit halves [hi, lo], so that every operation keeps *)
(* the width the Go code has.  Object ids, serials and lengths of the      *)
(* program proper are small and are kept as naturals.                      *)
(***************************************************************************)
EXTENDS Integers, Sequences, FiniteSets, TLC

(***************************************************************************)
(* Bounds of the model                                                     *)
(***************************************************************************)
\* Slots of the object table.  The program's table has 1 << 8 slots; the
\* model keeps the same layout (slot 0 unused, 1 and 2 preset) in a table
\* small enough for the peer to fill.
TableLen == 16

\* delete_id events the peer sends in one run
MaxDeletes == 1

\* pings, and configures, the peer has sent and the client has not answered
MaxPending == 1

\* longest byte string of the codec checks
MaxStrLen == 5

\* conn.Read calls of one run that return fewer bytes than they could
MaxShortReads == 1

(***************************************************************************)
(* Program constants                                                       *)
(***************************************************************************)
WORD_SIZE == 4

HEADER_SIZE == 2 * WORD_SIZE

WLDisplayID == 1

WLRegistryID == 2

objNone == 0

objWLDisplay == 1

objWLRegistry == 2

objWLCallback == 3

objWLCompositor == 4

objWLShm == 5

objWLShmPool == 6

objWLOutput == 7

objWLSurface == 8

objWLBuffer == 9

objXDGWMBase == 10

objXDGSurface == 11

objXDGTopLevel == 12

objZWLRLayerShell == 13

(***************************************************************************)
(* uint32 arithmetic on 16-bit halves                                      *)
(***************************************************************************)
TwoTo16 == 256 * 256

\* uint32(n) for a natural n below 2^31
U32(n) == [hi |-> (n \div TwoTo16) % TwoTo16, lo |-> n % TwoTo16]

\* a + b in uint32 (wraps modulo 2^32)
Add32(a, b) ==
    LET lo == a.lo + b.lo
    IN  [hi |-> (a.hi + b.hi + (lo \div TwoTo16)) % TwoTo16, lo |-> lo % TwoTo16]

\* a - b in uint32 (wraps modulo 2^32)
Sub32(a, b) ==
    LET borrow == IF a.lo < b.lo THEN 1 ELSE 0
    IN  [hi |-> (a.hi - b.hi - borrow + 2 * TwoTo16) % TwoTo16,
         lo |-> (a.lo - b.lo + TwoTo16) % TwoTo16]

\* a << 16 in uint32: the high half is shifted out
Shl16(a) == [hi |-> a.lo, lo |-> 0]

\* a >> 16
Shr16(a) == [hi |-> 0, lo |-> a.hi]

\* a & 0xffff
AndFFFF(a) == [hi |-> 0, lo |-> a.lo]

\* the natural a uint32 stands for, when it is below 2^31
Nat32(a) == a.hi * TwoTo16 + a.lo

\* whether a uint32 is small enough to be a length or an index of the model
Small32(a) == a.hi = 0

(***************************************************************************)
(* encoding/binary, little endian                                          *)
(***************************************************************************)
\* binary.LittleEndian.PutUint32 / AppendUint32: the four bytes of a uint32
PutUint32(w) == << w.lo % 256, w.lo \div 256, w.hi % 256, w.hi \div 256 >>

AppendUint32(buf, w) == buf \o PutUint32(w)

\* binary.LittleEndian.Uint32(b[off:]), off counted from 0; needs 4 bytes
HasUint32(b, off) == Len(b) >= off + 4

Uint32(b, off) ==
    [lo |-> b[off + 1] + 256 * b[off + 2], hi |-> b[off + 3] + 256 * b[off + 4]]

\* b[from:to] of Go, from and to counted from 0
Slice(b, from, to) == SubSeq(b, from + 1, to)

Zeros(n) == [i \in 1..n |-> 0]

(***************************************************************************)
(* Message codec                                                           *)
(***************************************************************************)
\* A plausible slip: the declared length leaves the header out.
makeMsgBufNoHeader(id, opcode, dataLen) ==
    PutUint32(id) \o PutUint32(Add32(Shl16(dataLen), U32(opcode)))

\* makeMsgBuf(id uint32, opcode uint16, dataLen uint32): the 8 header bytes
makeMsgBuf(id, opcode, dataLen) ==
    LET msgLen == Add32(U32(HEADER_SIZE), dataLen)
    IN  PutUint32(id) \o PutUint32(Add32(Shl16(msgLen), U32(opcode)))

\* The header part of read: what it decodes from the 8 header bytes.
\* body is made with size-HEADER_SIZE bytes, a uint32 subtraction.
readHeader(headerBytes) ==
    LET sizeNOpcode == Uint32(headerBytes, 4)
        size == Shr16(sizeNOpcode)
    IN  [id      |-> Uint32(headerBytes, 0),
         opcode  |-> AndFFFF(sizeNOpcode),
         bodyLen |-> Sub32(size, U32(HEADER_SIZE))]

\* conn.Read(buf) on a stream socket whose peer has sent all of `stream` and
\* closed: the numbers of bytes one call may return.  An empty buffer reads 0
\* bytes; at the end of the stream the call fails (the empty set); otherwise
\* it returns at least one byte and at most what the buffer holds and the
\* stream has left.
ReadCounts(stream, pos, want) ==
    IF want = 0 THEN {0}
    ELSE IF pos >= Len(stream) THEN {}
    ELSE 1..(IF want < Len(stream) - pos THEN want ELSE Len(stream) - pos)

\* the buffer after a conn.Read that returned n bytes: they replace its first
\* n bytes, the rest stays as it was
ReadInto(stream, pos, buf, n) ==
    SubSeq(stream, pos + 1, pos + n) \o SubSeq(buf, n + 1, Len(buf))

\* read(conn) when the header Read returns n1 bytes and the body Read n2
\* (0: that Read fails).  headerBytes is the package-level buffer, kept from
\* call to call.  make panics for a body length the subtraction wrapped to.
read(stream, pos, headerBytes, n1, n2) ==
    IF n1 = 0
    THEN [err |-> TRUE, panic |-> FALSE, pos |-> pos, headerBytes |-> headerBytes,
          id |-> U32(0), opcode |-> U32(0), body |-> << >>]
    ELSE
      LET hb == ReadInto(stream, pos, headerBytes, n1)
          h == readHeader(hb)
          pos1 == pos + n1
      IN  IF ~Small32(h.bodyLen)
          THEN [err |-> FALSE, panic |-> TRUE, pos |-> pos1, headerBytes |-> hb,
                id |-> h.id, opcode |-> h.opcode, body |-> << >>]
          ELSE
            LET len == Nat32(h.bodyLen)
            IN  [err |-> len > 0 /\ n2 = 0, panic |-> FALSE, pos |-> pos1 + n2,
                 headerBytes |-> hb, id |-> h.id, opcode |-> h.opcode,
                 body |-> ReadInto(stream, pos1, Zeros(len), n2)]

\* the body Read's buffer length in read, once the header Read returned n1 bytes
bodyWant(stream, pos, headerBytes, n1) ==
    LET h == readHeader(ReadInto(stream, pos, headerBytes, n1))
    IN  IF Small32(h.bodyLen) THEN Nat32(h.bodyLen) ELSE 0

\* A plausible slip: the padding is left out of the consumed count.
parseStrNoPad(b) ==
    IF ~HasUint32(b, 0) THEN [panic |-> TRUE, str |-> << >>, off |-> 0]
    ELSE
      LET n == Uint32(b, 0)
          end == 4 + Nat32(n)
      IN  IF ~Small32(n) \/ end - 1 < 4 \/ end - 1 > Len(b)
          THEN [panic |-> TRUE, str |-> << >>, off |-> 0]
          ELSE [panic |-> FALSE, str |-> Slice(b, 4, end - 1), off |-> end]

\* parseStr(b): the string without its NUL and the bytes consumed.  The slice
\* b[4:end-1] panics when its bounds are not 4 <= end-1 <= len(b).
parseStr(b) ==
    IF ~HasUint32(b, 0) THEN [panic |-> TRUE, str |-> << >>, off |-> 0]
    ELSE
      LET n == Uint32(b, 0)
          end == 4 + Nat32(n)
          pad == (4 - (Nat32(n) % 4)) % 4
      IN  IF ~Small32(n) \/ end - 1 < 4 \/ end - 1 > Len(b)
          THEN [panic |-> TRUE, str |-> << >>, off |-> 0]
          ELSE [panic |-> FALSE, str |-> Slice(b, 4, end - 1), off |-> end + pad]

\* The string part of mustBind (lines 283-292): length word, bytes, NUL, padding
bindString(iface) ==
    LET strLen == Len(iface) + 1
        padding == (4 - (strLen % 4)) % 4
    IN  PutUint32(U32(Len(iface) + 1)) \o iface \o << 0 >> \o Zeros(padding)

\* A plausible slip: the length word leaves the NUL out.
mustBindLenNoNul(name, id, ver, iface) ==
    LET strLen == Len(iface) + 1
        padding == (4 - (strLen % 4)) % 4
        hdr == makeMsgBuf(U32(WLRegistryID), 0, U32(WORD_SIZE * 4 + strLen + padding))
    IN  hdr \o PutUint32(name) \o PutUint32(U32(Len(iface))) \o iface \o << 0 >>
            \o Zeros(padding) \o PutUint32(ver) \o PutUint32(id)

\* mustBind(conn, name, id, ver, iface): the bytes of the bind request
mustBind(name, id, ver, iface) ==
    LET strLen == Len(iface) + 1
        padding == (4 - (strLen % 4)) % 4
        hdr == makeMsgBuf(U32(WLRegistryID), 0, U32(WORD_SIZE * 4 + strLen + padding))
    IN  AppendUint32(AppendUint32(AppendUint32(hdr, name) \o bindString(iface), ver), id)

(***************************************************************************)
(* Socket path resolution (main, lines 20-31).  A string is the sequence   *)
(* of its characters.                                                      *)
(***************************************************************************)
\* the elements of a path between its slashes, empty ones left out
RECURSIVE pathElems(_, _, _)
pathElems(s, cur, acc) ==
    IF s = << >> THEN (IF cur = << >> THEN acc ELSE Append(acc, cur))
    ELSE IF Head(s) = "/"
         THEN pathElems(Tail(s), << >>, IF cur = << >> THEN acc ELSE Append(acc, cur))
         ELSE pathElems(Tail(s), Append(cur, Head(s)), acc)

\* path.Clean on the elements: "." goes, ".." takes the element before it
\* with it, ".." at the start of a rooted path goes
RECURSIVE cleanElems(_, _, _)
cleanElems(elems, rooted, acc) ==
    IF elems = << >> THEN acc
    ELSE
      LET e == Head(elems)
          rest == Tail(elems)
      IN  IF e = << "." >> THEN cleanElems(rest, rooted, acc)
          ELSE IF e = << ".", "." >>
               THEN IF acc # << >> /\ acc[Len(acc)] # << ".", "." >>
                    THEN cleanElems(rest, rooted, SubSeq(acc, 1, Len(acc) - 1))
                    ELSE IF rooted THEN cleanElems(rest, rooted, acc)
                    ELSE cleanElems(rest, rooted, Append(acc, e))
               ELSE cleanElems(rest, rooted, Append(acc, e))

RECURSIVE joinElems(_)
joinElems(elems) ==
    IF elems = << >> THEN << >>
    ELSE IF Len(elems) = 1 THEN elems[1]
    ELSE elems[1] \o << "/" >> \o joinElems(Tail(elems))

\* path.Clean(p)
Clean(s) ==
    IF s = << >> THEN << "." >>
    ELSE
      LET rooted == Head(s) = "/"
          joined == joinElems(cleanElems(pathElems(s, << >>, << >>), rooted, << >>))
      IN  IF rooted THEN << "/" >> \o joined
          ELSE IF joined = << >> THEN << "." >> ELSE joined

\* path.Join(a, b): empty when both are; elements before the first non-empty
\* one are skipped, the others joined by a slash; the result is cleaned
Join(a, b) ==
    IF Len(a) + Len(b) = 0 THEN << >>
    ELSE
      LET buf1 == a
          buf2 == IF Len(buf1) > 0 THEN buf1 \o << "/" >> \o b
                  ELSE IF b # << >> THEN b ELSE buf1
      IN  Clean(buf2)

\* "wayland-0"
DefaultDisplay == << "w", "a", "y", "l", "a", "n", "d", "-", "0" >>

\* main, lines 20-31: the socket path from WAYLAND_SOCKET, XDG_RUNTIME_DIR and
\* WAYLAND_DISPLAY (an unset variable reads as the empty string)
resolveSocketPath(waylandSocket, xdgRuntimeDir, waylandDisplay) ==
    IF waylandSocket = << >> /\ xdgRuntimeDir = << >>
    THEN [panic |-> TRUE, socketPath |-> << >>]
    ELSE
      LET s1 == IF waylandSocket = << >> THEN Join(xdgRuntimeDir, waylandDisplay)
                ELSE waylandSocket
          s2 == IF s1 = << >> THEN Join(xdgRuntimeDir, DefaultDisplay) ELSE s1
      IN  [panic |-> FALSE, socketPath |-> s2]

(***************************************************************************)
(* State                                                                   *)
(***************************************************************************)
VARIABLES
    variant,            \* "frame": lines 1-437, "plain": lines 439-879
    pc,                 \* where main stands: start, loop, loop2, loop3, or ended
    objects,            \* the object table
    callbackID,
    WLCompositorID, WLShmID, WLShmPoolID, WLOutputID, WLBufferID, WLSurfaceID,
    XDGWMBaseID, XDGSurfaceID, XDGTopLevelID, ZWLRLayerShellID, WLFrameCallbackID,
    announce,           \* peer: the globals it has still to announce
    nDel,               \* peer: delete_id events sent
    lastEv,             \* the event the last step read
    out,                \* the requests the last step wrote, in order
    allocs,             \* the regObj calls of the last step, in order
    issued,             \* ids regObj returned and nothing freed since
    cfgPending,         \* configure serials read and not acked when the last step began to write
    pingPending,        \* ping serials read and not answered when the last step began to write
    configured,         \* a configure was read in loop3 before the last step
    job,                \* codec checks: the input
    res                 \* codec checks: what the codec made of it

progVars == << variant, pc, objects, callbackID, WLCompositorID, WLShmID, WLShmPoolID,
               WLOutputID, WLBufferID, WLSurfaceID, XDGWMBaseID, XDGSurfaceID,
               XDGTopLevelID, ZWLRLayerShellID, WLFrameCallbackID >>

peerVars == << announce, nDel >>

histVars == << lastEv, out, allocs, issued, cfgPending, pingPending, configured >>

codecVars == << job, res >>

vars == << progVars, peerVars, histVars, codecVars >>

(***************************************************************************)
(* The program's state as one record, so that a run of statements is a     *)
(* composition of operators.  out, allocs and issued are the step's log.   *)
(***************************************************************************)
Cur ==
    [objects |-> objects, callbackID |-> callbackID,
     WLCompositorID |-> WLCompositorID, WLShmID |-> WLShmID,
     WLShmPoolID |-> WLShmPoolID, WLOutputID |-> WLOutputID,
     WLBufferID |-> WLBufferID, WLSurfaceID |-> WLSurfaceID,
     XDGWMBaseID |-> XDGWMBaseID, XDGSurfaceID |-> XDGSurfaceID,
     XDGTopLevelID |-> XDGTopLevelID, ZWLRLayerShellID |-> ZWLRLayerShellID,
     WLFrameCallbackID |-> WLFrameCallbackID,
     out |-> << >>, allocs |-> << >>, issued |-> issued,
     ret |-> 0, err |-> FALSE, panic |-> FALSE]

\* the type in the slot of the id a request is addressed to (objNone: no slot)
TargetType(p, bytes) ==
    LET target == Uint32(bytes, 0)
    IN  IF Small32(target) /\ Nat32(target) < TableLen
        THEN p.objects[Nat32(target)] ELSE objNone

\* conn.Write(bytes) by the request writer named kind; fd: a descriptor rides
\* along; targetType: what the table holds for the target as it is written
Write(p, kind, bytes, fd) ==
    [p EXCEPT !.out = Append(@, [kind |-> kind, bytes |-> bytes, fd |-> fd,
                                 targetType |-> TargetType(p, bytes)])]

\* a run-time panic (index or slice out of range, a failed OS call)
Panic(p) == [p EXCEPT !.panic = TRUE]

(***************************************************************************)
(* Object table                                                            *)
(***************************************************************************)
\* var objects = [1 << 8]objType{objNone, objWLDisplay, objWLRegistry}
InitObjects ==
    [i \in 0..(TableLen - 1) |->
        IF i = 1 THEN objWLDisplay ELSE IF i = 2 THEN objWLRegistry ELSE objNone]

\* the loop of regObj: the first id from `id` on whose slot is 0, or n
RECURSIVE regObjScan(_, _)
regObjScan(objs, id) ==
    IF id < TableLen
    THEN IF objs[id] = 0 THEN id ELSE regObjScan(objs, id + 1)
    ELSE id

\* regObj(t): the id is left in ret
regObj(p, t) ==
    LET id == regObjScan(p.objects, 1)
    IN  [p EXCEPT !.objects = IF id < TableLen THEN [@ EXCEPT ![id] = t] ELSE @,
                  !.ret = id,
                  !.allocs = Append(@, [id |-> id, type |-> t,
                                        occupied |-> id < TableLen /\ p.objects[id] # objNone,
                                        again |-> id \in p.issued,
                                        full |-> id >= TableLen,
                                        at |-> Len(p.out)]),
                  !.issued = @ \cup {id}]

\* A plausible slip: delete_id is read and the slot is left as it is.
handleWLDisplayEventNoFree(p, opcode, body) ==
    IF ~HasUint32(body, 0) THEN Panic(p)
    ELSE
      CASE opcode = 0 ->
             IF ~HasUint32(body, 4) THEN Panic(p)
             ELSE IF parseStr(Slice(body, 8, Len(body))).panic THEN Panic(p)
             ELSE [p EXCEPT !.err = TRUE]
        [] OTHER -> p

\* handleWLDisplayEvent(opcode, body); err: it returned a wlDisplayErr
handleWLDisplayEvent(p, opcode, body) ==
    IF ~HasUint32(body, 0) THEN Panic(p)
    ELSE
      LET object == Uint32(body, 0)
      IN  CASE opcode = 0 ->
                 IF ~HasUint32(body, 4) THEN Panic(p)
                 ELSE IF parseStr(Slice(body, 8, Len(body))).panic THEN Panic(p)
                 ELSE [p EXCEPT !.err = TRUE]
            [] opcode = 1 ->
                 IF ~Small32(object) \/ Nat32(object) >= TableLen THEN Panic(p)
                 ELSE [p EXCEPT !.objects[Nat32(object)] = objNone,
                                !.issued = @ \ {Nat32(object)}]
            [] OTHER -> p

(***************************************************************************)
(* Request writers                                                         *)
(***************************************************************************)
mustGetReg(p) ==
    LET msgBytes == makeMsgBuf(U32(WLDisplayID), 1, U32(WORD_SIZE))
    IN  Write(p, "get_registry", AppendUint32(msgBytes, U32(WLRegistryID)), FALSE)

\* the id is left in ret
mustSync(p) ==
    LET q == regObj(p, objWLCallback)
        msgBytes == makeMsgBuf(U32(WLDisplayID), 0, U32(WORD_SIZE))
    IN  Write(q, "sync", AppendUint32(msgBytes, U32(q.ret)), FALSE)

\* osOk: CreateTemp, Truncate and Mmap succeeded
mustCreatePool(p, osOk) ==
    LET buf == makeMsgBuf(U32(p.WLShmID), 0, U32(WORD_SIZE * 2))
        q == regObj(p, objWLShmPool)
        r == [q EXCEPT !.WLShmPoolID = q.ret]
        size == 100 * 100 * 4
        msg == AppendUint32(AppendUint32(buf, U32(r.WLShmPoolID)), U32(size))
    IN  IF osOk THEN Write(r, "create_pool", msg, TRUE) ELSE Panic(r)

\* A plausible slip: the header counts five argument words, six are appended.
mustCreateBufferFiveWords(p) ==
    LET buf == makeMsgBuf(U32(p.WLShmPoolID), 0, U32(WORD_SIZE * 5))
        q == regObj(p, objWLBuffer)
        r == [q EXCEPT !.WLBufferID = q.ret]
        msg == buf \o PutUint32(U32(r.WLBufferID)) \o PutUint32(U32(0))
                   \o PutUint32(U32(100)) \o PutUint32(U32(100))
                   \o PutUint32(U32(100 * 4)) \o PutUint32(U32(1))
    IN  Write(r, "create_buffer", msg, FALSE)

mustCreateBuffer(p) ==
    LET buf == makeMsgBuf(U32(p.WLShmPoolID), 0, U32(WORD_SIZE * 6))
        q == regObj(p, objWLBuffer)
        r == [q EXCEPT !.WLBufferID = q.ret]
        msg == buf \o PutUint32(U32(r.WLBufferID)) \o PutUint32(U32(0))
                   \o PutUint32(U32(100)) \o PutUint32(U32(100))
                   \o PutUint32(U32(100 * 4)) \o PutUint32(U32(1))
    IN  Write(r, "create_buffer", msg, FALSE)

mustCreateSurface(p) ==
    LET buf == makeMsgBuf(U32(p.WLCompositorID), 0, U32(WORD_SIZE))
        q == regObj(p, objWLSurface)
        r == [q EXCEPT !.WLSurfaceID = q.ret]
    IN  Write(r, "create_surface", AppendUint32(buf, U32(r.WLSurfaceID)), FALSE)

mustAttach(p) ==
    LET buf == makeMsgBuf(U32(p.WLSurfaceID), 1, U32(WORD_SIZE * 3))
        msg == buf \o PutUint32(U32(p.WLBufferID)) \o PutUint32(U32(0)) \o PutUint32(U32(0))
    IN  Write(p, "attach", msg, FALSE)

mustDamage(p) ==
    LET buf == makeMsgBuf(U32(p.WLSurfaceID), 9, U32(WORD_SIZE * 4))
        msg == buf \o PutUint32(U32(0)) \o PutUint32(U32(0))
                   \o PutUint32(U32(100)) \o PutUint32(U32(100))
    IN  Write(p, "damage", msg, FALSE)

mustCommit(p) ==
    Write(p, "commit", makeMsgBuf(U32(p.WLSurfaceID), 6, U32(0)), FALSE)

mustFrame(p) ==
    LET q == regObj(p, objWLCallback)
        r == [q EXCEPT !.WLFrameCallbackID = q.ret]
        buf == makeMsgBuf(U32(r.WLSurfaceID), 3, U32(WORD_SIZE))
    IN  Write(r, "frame", AppendUint32(buf, U32(r.WLFrameCallbackID)), FALSE)

mustGetXDGSurface(p) ==
    LET buf == makeMsgBuf(U32(p.XDGWMBaseID), 2, U32(WORD_SIZE * 2))
        q == regObj(p, objXDGSurface)
        r == [q EXCEPT !.XDGSurfaceID = q.ret]
        msg == AppendUint32(AppendUint32(buf, U32(r.XDGSurfaceID)), U32(r.WLSurfaceID))
    IN  Write(r, "get_xdg_surface", msg, FALSE)

mustGetTopLevel(p) ==
    LET buf == makeMsgBuf(U32(p.XDGSurfaceID), 1, U32(WORD_SIZE))
        q == regObj(p, objXDGTopLevel)
        r == [q EXCEPT !.XDGTopLevelID = q.ret]
    IN  Write(r, "get_toplevel", AppendUint32(buf, U32(r.XDGTopLevelID)), FALSE)

\* serial is the uint32 read from the event's body
mustAckConfigure(p, serial) ==
    LET buf == makeMsgBuf(U32(p.XDGSurfaceID), 4, U32(WORD_SIZE))
    IN  Write(p, "ack_configure", AppendUint32(buf, serial), FALSE)

mustPong(p, serial) ==
    LET buf == makeMsgBuf(U32(p.XDGWMBaseID), 3, U32(WORD_SIZE))
    IN  Write(p, "pong", AppendUint32(buf, serial), FALSE)

(***************************************************************************)
(* Interface names, as bytes                                               *)
(***************************************************************************)
\* "wl_compositor"
IfaceCompositor == << 119, 108, 95, 99, 111, 109, 112, 111, 115, 105, 116, 111, 114 >>

\* "wl_shm"
IfaceShm == << 119, 108, 95, 115, 104, 109 >>

\* "wl_output"
IfaceOutput == << 119, 108, 95, 111, 117, 116, 112, 117, 116 >>

\* "xdg_wm_base"
IfaceWMBase == << 120, 100, 103, 95, 119, 109, 95, 98, 97, 115, 101 >>

\* "zwlr_layer_shell_v1"
IfaceLayerShell == << 122, 119, 108, 114, 95, 108, 97, 121, 101, 114, 95, 115, 104, 101, 108, 108, 95, 118, 49 >>

\* "wl_seat"
IfaceSeat == << 119, 108, 95, 115, 101, 97, 116 >>

(***************************************************************************)
(* The peer: the events it may send.  An event is what read returns: the   *)
(* target id, the opcode and the body bytes.                               *)
(***************************************************************************)
Global(name, iface, ver) == [name |-> name, iface |-> iface, ver |-> ver]

GCompositor == Global(5, IfaceCompositor, 4)

GShm == Global(1, IfaceShm, 1)

GOutput == Global(9, IfaceOutput, 3)

GWMBase == Global(7, IfaceWMBase, 2)

GLayerShell == Global(11, IfaceLayerShell, 1)

GSeat == Global(3, IfaceSeat, 5)

\* the lists of globals a peer announces; the last one fills the object table
Scripts ==
    { << >>,
      << GSeat, GCompositor, GShm, GOutput, GWMBase, GLayerShell >>,
      [i \in 1..(TableLen - 4) |-> GShm] \o << GCompositor, GWMBase >> }

Serials == {7, 9}

Event(id, opcode, body) == [id |-> id, opcode |-> opcode, body |-> body]

\* wl_display.error(object, code, message)
EvDisplayError ==
    Event(WLDisplayID, 0,
          PutUint32(U32(3)) \o PutUint32(U32(1)) \o bindString(<< 101, 114, 114 >>))

\* wl_display.delete_id(id)
EvDeleteId(x) == Event(WLDisplayID, 1, PutUint32(U32(x)))

\* an opcode wl_display does not have
EvDisplayOther == Event(WLDisplayID, 2, PutUint32(U32(0)))

\* wl_registry.global(name, interface, version)
EvGlobal(g) ==
    Event(WLRegistryID, 0,
          PutUint32(U32(g.name)) \o bindString(g.iface) \o PutUint32(U32(g.ver)))

\* wl_registry.global_remove(name)
EvGlobalRemove == Event(WLRegistryID, 1, PutUint32(U32(5)))

\* wl_callback.done(data)
EvDone(id) == Event(id, 0, PutUint32(U32(0)))

\* an event with an opcode the object's interface does not have, no arguments
EvUnknown(id) == Event(id, 7, << >>)

\* xdg_wm_base.ping(serial), xdg_surface.configure(serial)
EvSerial(id, s) == Event(id, 0, PutUint32(U32(s)))

\* xdg_toplevel.close
EvClose(id) == Event(id, 1, << >>)

\* xdg_toplevel.configure(width, height, states): an empty array of states
EvTopLevelConfigure(id) ==
    Event(id, 0, PutUint32(U32(100)) \o PutUint32(U32(100)) \o PutUint32(U32(0)))

\* ids the peer names in delete_id: the two singletons, the first sync callback,
\* the callbacks and the window manager the client holds, and one past the table
DeleteTargets ==
    ({1, 2, 3, callbackID, WLFrameCallbackID, XDGWMBaseID, TableLen}) \ {0}

\* the serial argument of the requests of one kind in a list of requests
SerialsOf(reqs, kind) ==
    {Nat32(Uint32(reqs[k].bytes, 8)) : k \in {i \in DOMAIN reqs : reqs[i].kind = kind}}

\* pings, and configures, still unanswered after the last step
PingsOpen == pingPending \ SerialsOf(out, "pong")

ConfiguresOpen == cfgPending \ SerialsOf(out, "ack_configure")

\* The peer announces its globals first, in one burst, and then sends whatever
\* it likes, in any order.
PeerEvents ==
    IF announce # << >> THEN {EvGlobal(Head(announce))}
    ELSE
    {EvDisplayError, EvDisplayOther, EvGlobalRemove}
    \cup (IF nDel < MaxDeletes THEN {EvDeleteId(x) : x \in DeleteTargets} ELSE {})
    \cup (IF pc \in {"loop", "loop2"}
          THEN {EvDone(callbackID), EvUnknown(callbackID)} ELSE {})
    \cup (IF XDGWMBaseID # 0
          THEN (IF Cardinality(PingsOpen) < MaxPending
                THEN {EvSerial(XDGWMBaseID, s) : s \in Serials} ELSE {})
               \cup {EvUnknown(XDGWMBaseID)}
          ELSE {})
    \cup (IF XDGSurfaceID # 0
          THEN (IF Cardinality(ConfiguresOpen) < MaxPending
                THEN {EvSerial(XDGSurfaceID, s) : s \in Serials} ELSE {})
               \cup {EvUnknown(XDGSurfaceID)}
          ELSE {})
    \cup (IF XDGTopLevelID # 0
          THEN {EvClose(XDGTopLevelID), EvTopLevelConfigure(XDGTopLevelID)}
          ELSE {})
    \cup (IF variant = "frame" /\ WLFrameCallbackID # 0
          THEN {EvDone(WLFrameCallbackID)}
          ELSE {})
    \cup {EvUnknown(TableLen + 1)}

\* what the peer's own state becomes when it has sent ev
PeerSent(ev) ==
    /\ announce' = IF announce # << >> /\ ev = EvGlobal(Head(announce))
                   THEN Tail(announce) ELSE announce
    /\ nDel' = IF ev.id = WLDisplayID /\ ev.opcode = 1 THEN nDel + 1 ELSE nDel

(***************************************************************************)
(* The log of a step                                                       *)
(***************************************************************************)
\* the objects of the client that the id names when the event is read
Roles(id) ==
    (IF id = WLDisplayID THEN {"display"} ELSE {})
    \cup (IF id = WLRegistryID THEN {"registry"} ELSE {})
    \cup (IF pc \in {"loop", "loop2"} /\ id = callbackID THEN {"callback"} ELSE {})
    \cup (IF XDGWMBaseID # 0 /\ id = XDGWMBaseID THEN {"wm_base"} ELSE {})
    \cup (IF XDGSurfaceID # 0 /\ id = XDGSurfaceID THEN {"xdg_surface"} ELSE {})
    \cup (IF XDGTopLevelID # 0 /\ id = XDGTopLevelID THEN {"toplevel"} ELSE {})
    \cup (IF variant = "frame" /\ WLFrameCallbackID # 0 /\ id = WLFrameCallbackID
          THEN {"frame"} ELSE {})

NoEvent == [id |-> 0, opcode |-> 0, body |-> << >>, roles |-> {}, phase |-> "none"]

Logged(ev) ==
    [id |-> ev.id, opcode |-> ev.opcode, body |-> ev.body,
     roles |-> Roles(ev.id), phase |-> pc]

\* the serial of an event that is opcode 0 on the object named role, if it is one
SerialFor(ev, role) ==
    IF role \in Roles(ev.id) /\ ev.opcode = 0 /\ HasUint32(ev.body, 0)
    THEN {Nat32(Uint32(ev.body, 0))} ELSE {}

Count(reqs, kind) == Cardinality({i \in DOMAIN reqs : reqs[i].kind = kind})

\* the state after a step that read ev (NoEvent: none), ran to p and stands at newpc
Becomes(p, newpc, ev) ==
    /\ pc' = IF p.panic THEN "panic" ELSE newpc
    /\ objects' = p.objects
    /\ callbackID' = p.callbackID
    /\ WLCompositorID' = p.WLCompositorID
    /\ WLShmID' = p.WLShmID
    /\ WLShmPoolID' = p.WLShmPoolID
    /\ WLOutputID' = p.WLOutputID
    /\ WLBufferID' = p.WLBufferID
    /\ WLSurfaceID' = p.WLSurfaceID
    /\ XDGWMBaseID' = p.XDGWMBaseID
    /\ XDGSurfaceID' = p.XDGSurfaceID
    /\ XDGTopLevelID' = p.XDGTopLevelID
    /\ ZWLRLayerShellID' = p.ZWLRLayerShellID
    /\ WLFrameCallbackID' = p.WLFrameCallbackID
    /\ out' = p.out
    /\ allocs' = p.allocs
    /\ issued' = p.issued
    /\ lastEv' = IF ev = NoEvent THEN NoEvent ELSE Logged(ev)
    /\ cfgPending' = ConfiguresOpen
                        \cup (IF ev = NoEvent THEN {} ELSE SerialFor(ev, "xdg_surface"))
    /\ pingPending' = PingsOpen
                        \cup (IF ev = NoEvent THEN {} ELSE SerialFor(ev, "wm_base"))
    /\ configured' = (configured \/ (lastEv # NoEvent /\ lastEv.phase = "loop3"
                                        /\ "xdg_surface" \in lastEv.roles
                                        /\ lastEv.opcode = 0))
    /\ UNCHANGED << variant, codecVars >>

(***************************************************************************)
(* main: the pieces between two reads                                      *)
(***************************************************************************)
\* the switch on string(iface) of the discovery loop: the type bound, or objNone.
\* The frame-driven variant binds five interfaces, the other one three.
BindType(iface) ==
    CASE iface = IfaceCompositor -> objWLCompositor
      [] iface = IfaceShm -> objWLShm
      [] iface = IfaceOutput /\ variant = "frame" -> objWLOutput
      [] iface = IfaceWMBase -> objXDGWMBase
      [] iface = IfaceLayerShell /\ variant = "frame" -> objZWLRLayerShell
      [] OTHER -> objNone

\* X = regObj(objX): the id variable the case assigns
SetBound(q, t) ==
    CASE t = objWLCompositor -> [q EXCEPT !.WLCompositorID = q.ret]
      [] t = objWLShm -> [q EXCEPT !.WLShmID = q.ret]
      [] t = objWLOutput -> [q EXCEPT !.WLOutputID = q.ret]
      [] t = objXDGWMBase -> [q EXCEPT !.XDGWMBaseID = q.ret]
      [] t = objZWLRLayerShell -> [q EXCEPT !.ZWLRLayerShellID = q.ret]
      [] OTHER -> q

\* A plausible slip: the object is allocated and the bind is never written.
handleRegistryEventNoBind(p, opcode, body) ==
    IF opcode # 0 THEN p
    ELSE IF ~HasUint32(body, 0) THEN Panic(p)
    ELSE
      LET parsed == parseStr(Slice(body, 4, Len(body)))
      IN  IF parsed.panic \/ ~HasUint32(body, 4 + parsed.off) THEN Panic(p)
          ELSE
            LET t == BindType(parsed.str)
            IN  IF t = objNone THEN p ELSE SetBound(regObj(p, t), t)

\* case WLRegistryID of the discovery loop
handleRegistryEvent(p, opcode, body) ==
    IF opcode # 0 THEN p
    ELSE IF ~HasUint32(body, 0) THEN Panic(p)
    ELSE
      LET name == Uint32(body, 0)
          parsed == parseStr(Slice(body, 4, Len(body)))
      IN  IF parsed.panic \/ ~HasUint32(body, 4 + parsed.off) THEN Panic(p)
          ELSE
            LET ver == Uint32(body, 4 + parsed.off)
                t == BindType(parsed.str)
                q == SetBound(regObj(p, t), t)
            IN  IF t = objNone THEN p
                ELSE Write(q, "bind", mustBind(name, U32(q.ret), ver, parsed.str), FALSE)

\* A plausible slip: the pool and the buffer are created before the surface.
SurfaceInitPoolFirst(p, osOk) ==
    LET a == mustCreatePool(p, osOk)
        b == mustCreateBuffer(a)
        c == mustCreateSurface(b)
        d == mustGetXDGSurface(c)
        f == mustSync(mustGetTopLevel(d))
    IN  IF a.panic THEN a ELSE [f EXCEPT !.callbackID = f.ret]

\* the requests between the discovery loop and loop2
SurfaceInit(p, osOk) ==
    LET a == mustCreateSurface(p)
        b == mustGetXDGSurface(a)
        c == mustGetTopLevel(b)
        d == mustCreatePool(c, osOk)
        e == mustCreateBuffer(d)
        f == mustSync(e)
    IN  IF d.panic THEN d ELSE [f EXCEPT !.callbackID = f.ret]

\* the requests between loop2 and loop3
InitialCommit(p) ==
    IF variant = "frame"
    THEN mustCommit(mustDamage(mustAttach(mustFrame(p))))
    ELSE mustCommit(mustDamage(mustAttach(p)))

\* case WLFrameCallbackID of loop3 (frame-driven variant)
handleFrameDone(p) ==
    IF p.WLFrameCallbackID >= TableLen THEN Panic(p)
    ELSE
      LET a == [p EXCEPT !.objects[p.WLFrameCallbackID] = objNone,
                         !.issued = @ \ {p.WLFrameCallbackID},
                         !.WLFrameCallbackID = 0]
      IN  mustCommit(mustDamage(mustAttach(mustFrame(a))))

\* case XDGWMBaseID of loop3
handleWMBaseEvent(p, opcode, body) ==
    IF opcode # 0 THEN p
    ELSE IF ~HasUint32(body, 0) THEN Panic(p)
    ELSE mustPong(p, Uint32(body, 0))

\* case XDGSurfaceID of loop3
handleXDGSurfaceEvent(p, opcode, body) ==
    IF opcode # 0 THEN p
    ELSE IF ~HasUint32(body, 0) THEN Panic(p)
    ELSE
      LET a == mustAckConfigure(p, Uint32(body, 0))
      IN  IF variant = "frame" THEN a
          ELSE mustCommit(mustDamage(mustAttach(a)))

(***************************************************************************)
(* Actions: one per stretch of main between two reads                      *)
(***************************************************************************)
Init ==
    /\ variant \in {"frame", "plain"}
    /\ pc = "start"
    /\ objects = InitObjects
    /\ callbackID = 0
    /\ WLCompositorID = 0 /\ WLShmID = 0 /\ WLShmPoolID = 0 /\ WLOutputID = 0
    /\ WLBufferID = 0 /\ WLSurfaceID = 0 /\ XDGWMBaseID = 0 /\ XDGSurfaceID = 0
    /\ XDGTopLevelID = 0 /\ ZWLRLayerShellID = 0 /\ WLFrameCallbackID = 0
    /\ announce \in Scripts
    /\ nDel = 0
    /\ lastEv = NoEvent
    /\ out = << >>
    /\ allocs = << >>
    /\ issued = {}
    /\ cfgPending = {}
    /\ pingPending = {}
    /\ configured = FALSE
    /\ job = [kind |-> "none"]
    /\ res = [kind |-> "none"]

\* mustGetReg(conn); callbackID := mustSync(conn)
Bootstrap ==
    /\ pc = "start"
    /\ LET p == mustSync(mustGetReg(Cur))
       IN  Becomes([p EXCEPT !.callbackID = p.ret], "loop", NoEvent)
    /\ UNCHANGED peerVars

\* read returns an error: panic(err)
ReadFails ==
    /\ pc \in {"loop", "loop2", "loop3"}
    /\ Becomes(Panic(Cur), pc, NoEvent)
    /\ UNCHANGED peerVars

\* loop, case WLDisplayID
LoopDisplay ==
    /\ pc = "loop"
    /\ \E ev \in PeerEvents :
         /\ ev.id = WLDisplayID
         /\ LET p == handleWLDisplayEvent(Cur, ev.opcode, ev.body)
            IN  Becomes(p, IF p.err THEN "exit1" ELSE "loop", ev)
         /\ PeerSent(ev)

\* loop, case WLRegistryID
LoopRegistry ==
    /\ pc = "loop"
    /\ \E ev \in PeerEvents :
         /\ ev.id = WLRegistryID
         /\ Becomes(handleRegistryEvent(Cur, ev.opcode, ev.body), "loop", ev)
         /\ PeerSent(ev)

\* loop, case callbackID: break loop and go on to loop2.  Only the second
\* variant looks at the opcode.
LoopCallback ==
    /\ pc = "loop"
    /\ \E ev \in PeerEvents, osOk \in BOOLEAN :
         /\ ev.id \notin {WLDisplayID, WLRegistryID}
         /\ ev.id = callbackID
         /\ IF variant = "plain" /\ ev.opcode # 0
            THEN osOk /\ Becomes(Cur, "loop", ev)
            ELSE Becomes(SurfaceInit(Cur, osOk), "loop2", ev)
         /\ PeerSent(ev)

\* loop, default
LoopDefault ==
    /\ pc = "loop"
    /\ \E ev \in PeerEvents :
         /\ ev.id \notin {WLDisplayID, WLRegistryID, callbackID}
         /\ Becomes(Cur, "loop", ev)
         /\ PeerSent(ev)

\* loop2, case WLDisplayID: the handler's error is dropped
Loop2Display ==
    /\ pc = "loop2"
    /\ \E ev \in PeerEvents :
         /\ ev.id = WLDisplayID
         /\ Becomes([handleWLDisplayEvent(Cur, ev.opcode, ev.body) EXCEPT !.err = FALSE],
                    "loop2", ev)
         /\ PeerSent(ev)

\* loop2, case callbackID: break loop2 and go on to loop3
Loop2Callback ==
    /\ pc = "loop2"
    /\ \E ev \in PeerEvents :
         /\ ev.id # WLDisplayID
         /\ ev.id = callbackID
         /\ IF variant = "plain" /\ ev.opcode # 0
            THEN Becomes(Cur, "loop2", ev)
            ELSE Becomes(InitialCommit(Cur), "loop3", ev)
         /\ PeerSent(ev)

\* loop2, default
Loop2Default ==
    /\ pc = "loop2"
    /\ \E ev \in PeerEvents :
         /\ ev.id \notin {WLDisplayID, callbackID}
         /\ Becomes(Cur, "loop2", ev)
         /\ PeerSent(ev)

\* loop3, case WLDisplayID: the handler's error is dropped
Loop3Display ==
    /\ pc = "loop3"
    /\ \E ev \in PeerEvents :
         /\ ev.id = WLDisplayID
         /\ Becomes([handleWLDisplayEvent(Cur, ev.opcode, ev.body) EXCEPT !.err = FALSE],
                    "loop3", ev)
         /\ PeerSent(ev)

\* loop3, case XDGWMBaseID
Loop3WMBase ==
    /\ pc = "loop3"
    /\ \E ev \in PeerEvents :
         /\ ev.id # WLDisplayID
         /\ ev.id = XDGWMBaseID
         /\ Becomes(handleWMBaseEvent(Cur, ev.opcode, ev.body), "loop3", ev)
         /\ PeerSent(ev)

\* loop3, case XDGSurfaceID
Loop3XDGSurface ==
    /\ pc = "loop3"
    /\ \E ev \in PeerEvents :
         /\ ev.id \notin {WLDisplayID, XDGWMBaseID}
         /\ ev.id = XDGSurfaceID
         /\ Becomes(handleXDGSurfaceEvent(Cur, ev.opcode, ev.body), "loop3", ev)
         /\ PeerSent(ev)

\* loop3, case XDGTopLevelID: break loop3 on close, main returns
Loop3TopLevel ==
    /\ pc = "loop3"
    /\ \E ev \in PeerEvents :
         /\ ev.id \notin {WLDisplayID, XDGWMBaseID, XDGSurfaceID}
         /\ ev.id = XDGTopLevelID
         /\ Becomes(Cur, IF ev.opcode # 1 THEN "loop3" ELSE "done", ev)
         /\ PeerSent(ev)

\* loop3, case WLFrameCallbackID (frame-driven variant only)
Loop3FrameCallback ==
    /\ pc = "loop3"
    /\ variant = "frame"
    /\ \E ev \in PeerEvents :
         /\ ev.id \notin {WLDisplayID, XDGWMBaseID, XDGSurfaceID, XDGTopLevelID}
         /\ ev.id = WLFrameCallbackID
         /\ Becomes(handleFrameDone(Cur), "loop3", ev)
         /\ PeerSent(ev)

\* loop3, default
Loop3Default ==
    /\ pc = "loop3"
    /\ \E ev \in PeerEvents :
         /\ ev.id \notin {WLDisplayID, XDGWMBaseID, XDGSurfaceID, XDGTopLevelID}
         /\ variant = "frame" => ev.id # WLFrameCallbackID
         /\ Becomes(Cur, "loop3", ev)
         /\ PeerSent(ev)

Next ==
    \/ Bootstrap
    \/ ReadFails
    \/ LoopDisplay
    \/ LoopRegistry
    \/ LoopCallback
    \/ LoopDefault
    \/ Loop2Display
    \/ Loop2Callback
    \/ Loop2Default
    \/ Loop3Display
    \/ Loop3WMBase
    \/ Loop3XDGSurface
    \/ Loop3TopLevel
    \/ Loop3FrameCallback
    \/ Loop3Default

Spec == Init /\ [][Next]_vars

(***************************************************************************)
(* The codec on its own: inputs drawn at the start, the functions applied  *)
(***************************************************************************)
\* targets, up to the largest uint32
Targets ==
    {U32(0), U32(1), U32(2), U32(255), [hi |-> 1, lo |-> 0], [hi |-> 32768, lo |-> 0],
     [hi |-> 65535, lo |-> 65535]}

Opcodes == {0, 1, 9, 255, 256, 65535}

\* body lengths; the last one makes 8 + bodyLength pass 65535
BodyLens == {0, 4, 24, 255, 256, 65527, 65528}

StrBytes == {0, 97, 255}

ByteStrings == UNION {[1..n -> StrBytes] : n \in 0..MaxStrLen}

\* what follows the string in the buffer parseStr is given
Tails == {<< >>, << 4, 0, 0, 0 >>}

BindIds == {3, 4, TableLen}

\* "/run/user/1000"
RunUser1000 ==
    << "/", "r", "u", "n", "/", "u", "s", "e", "r", "/", "1", "0", "0", "0" >>

\* values of WAYLAND_SOCKET: unset or empty, "/tmp/s"
Sockets == {<< >>, << "/", "t", "m", "p", "/", "s" >>}

\* values of XDG_RUNTIME_DIR: unset or empty, "/run/user/1000", "/r/"
RuntimeDirs == {<< >>, RunUser1000, << "/", "r", "/" >>}

\* values of WAYLAND_DISPLAY: unset or empty, "wayland-1", "../w"
DisplayNames ==
    {<< >>, << "w", "a", "y", "l", "a", "n", "d", "-", "1" >>, << ".", ".", "/", "w" >>}

\* the bytes of an event on the wire
Wire(ev) == makeMsgBuf(U32(ev.id), ev.opcode, U32(Len(ev.body))) \o ev.body

RECURSIVE WireAll(_)
WireAll(evs) == IF evs = << >> THEN << >> ELSE Wire(Head(evs)) \o WireAll(Tail(evs))

\* what the peer sends before it closes the connection
EventLists ==
    { << EvDone(3), EvClose(6) >>,
      << EvGlobal(GShm), EvDone(3) >>,
      << EvClose(6), EvDeleteId(3), EvSerial(5, 7) >> }

\* the request writers other than mustBind, by the request they write
Writers ==
    {"get_registry", "sync", "create_pool", "create_buffer", "create_surface",
     "attach", "damage", "commit", "frame", "get_xdg_surface", "get_toplevel",
     "ack_configure", "pong"}

\* the state after one call of a request writer
Emit(writer, serial) ==
    CASE writer = "get_registry" -> mustGetReg(Cur)
      [] writer = "sync" -> mustSync(Cur)
      [] writer = "create_pool" -> mustCreatePool(Cur, TRUE)
      [] writer = "create_buffer" -> mustCreateBuffer(Cur)
      [] writer = "create_surface" -> mustCreateSurface(Cur)
      [] writer = "attach" -> mustAttach(Cur)
      [] writer = "damage" -> mustDamage(Cur)
      [] writer = "commit" -> mustCommit(Cur)
      [] writer = "frame" -> mustFrame(Cur)
      [] writer = "get_xdg_surface" -> mustGetXDGSurface(Cur)
      [] writer = "get_toplevel" -> mustGetTopLevel(Cur)
      [] writer = "ack_configure" -> mustAckConfigure(Cur, U32(serial))
      [] writer = "pong" -> mustPong(Cur, U32(serial))

Jobs ==
    [kind : {"header"}, target : Targets, opcode : Opcodes, bodyLen : BodyLens]
    \cup [kind : {"string"}, s : ByteStrings, tail : Tails]
    \cup [kind : {"bind"}, g : {GCompositor, GShm, GOutput, GWMBase, GLayerShell, GSeat},
          id : BindIds]
    \cup [kind : {"bind"}, g : {Global(1, iface, 1) : iface \in ByteStrings}, id : {3}]
    \cup [kind : {"request"}, writer : Writers, serial : Serials]
    \cup [kind : {"resolve"}, socket : Sockets, dir : RuntimeDirs, display : DisplayNames]
    \cup [kind : {"read"}, evs : EventLists]

InitCodec ==
    /\ variant = "frame"
    /\ pc = "start"
    /\ objects = InitObjects
    /\ callbackID = 0
    /\ WLCompositorID = 0 /\ WLShmID = 0 /\ WLShmPoolID = 0 /\ WLOutputID = 0
    /\ WLBufferID = 0 /\ WLSurfaceID = 0 /\ XDGWMBaseID = 0 /\ XDGSurfaceID = 0
    /\ XDGTopLevelID = 0 /\ ZWLRLayerShellID = 0 /\ WLFrameCallbackID = 0
    /\ announce = << >>
    /\ nDel = 0
    /\ lastEv = NoEvent
    /\ out = << >>
    /\ allocs = << >>
    /\ issued = {}
    /\ cfgPending = {}
    /\ pingPending = {}
    /\ configured = FALSE
    /\ job \in Jobs
    /\ res = [kind |-> "none"]

\* makeMsgBuf(target, opcode, bodyLen)
EncodeHeader ==
    /\ job.kind = "header" /\ res.kind = "none"
    /\ res' = [kind |-> "header",
               buf |-> makeMsgBuf(job.target, job.opcode, U32(job.bodyLen))]
    /\ UNCHANGED << progVars, peerVars, histVars, job >>

\* read's decoding of those 8 bytes
DecodeHeader ==
    /\ res.kind = "header"
    /\ res' = [kind |-> "decoded", buf |-> res.buf, hdr |-> readHeader(res.buf)]
    /\ UNCHANGED << progVars, peerVars, histVars, job >>

\* the string as mustBind writes it
EncodeString ==
    /\ job.kind = "string" /\ res.kind = "none"
    /\ res' = [kind |-> "string", buf |-> bindString(job.s)]
    /\ UNCHANGED << progVars, peerVars, histVars, job >>

\* parseStr on those bytes and what follows them
DecodeString ==
    /\ res.kind = "string"
    /\ res' = [kind |-> "parsed", buf |-> res.buf, parsed |-> parseStr(res.buf \o job.tail)]
    /\ UNCHANGED << progVars, peerVars, histVars, job >>

\* mustBind(conn, name, id, ver, iface)
EncodeBind ==
    /\ job.kind = "bind" /\ res.kind = "none"
    /\ res' = [kind |-> "bind",
               buf |-> mustBind(U32(job.g.name), U32(job.id), U32(job.g.ver), job.g.iface)]
    /\ UNCHANGED << progVars, peerVars, histVars, job >>

\* main, lines 20-31
ResolveSocket ==
    /\ job.kind = "resolve" /\ res.kind = "none"
    /\ res' = [kind |-> "resolved",
               r |-> resolveSocketPath(job.socket, job.dir, job.display)]
    /\ UNCHANGED << progVars, peerVars, histVars, job >>

\* the state of the connection and of read's results before the first call
ReadStart ==
    [kind |-> "read", pos |-> 0, headerBytes |-> Zeros(HEADER_SIZE), got |-> << >>,
     err |-> FALSE, panic |-> FALSE, short |-> 0]

\* the byte counts the transport may give one conn.Read: any of ReadCounts
\* while it may still deliver short, its largest otherwise; 0 stands for a
\* Read that fails
Deliveries(stream, pos, want, mayShort) ==
    LET counts == ReadCounts(stream, pos, want)
    IN  IF counts = {} THEN {0}
        ELSE IF mayShort THEN counts
        ELSE {n \in counts : \A m \in counts : m <= n}

\* 1 when the Read returned fewer bytes than it could, else 0
IsShort(stream, pos, want, n) ==
    IF \E m \in ReadCounts(stream, pos, want) : m > n THEN 1 ELSE 0

\* one call of read(conn); the transport decides how many bytes each
\* conn.Read returns
ReadMessage ==
    /\ job.kind = "read"
    /\ res.kind \in {"none", "read"}
    /\ LET c == IF res.kind = "none" THEN ReadStart ELSE res
           stream == WireAll(job.evs)
       IN  /\ ~c.err /\ ~c.panic
           /\ \E n1 \in Deliveries(stream, c.pos, HEADER_SIZE, c.short < MaxShortReads) :
                LET s1 == c.short + IsShort(stream, c.pos, HEADER_SIZE, n1)
                    want == bodyWant(stream, c.pos, c.headerBytes, n1)
                IN  \E n2 \in (IF n1 = 0 THEN {0}
                               ELSE Deliveries(stream, c.pos + n1, want,
                                               s1 < MaxShortReads)) :
                      LET r == read(stream, c.pos, c.headerBytes, n1, n2)
                      IN  res' = [kind |-> "read", pos |-> r.pos,
                                  headerBytes |-> r.headerBytes,
                                  got |-> IF r.err \/ r.panic THEN c.got
                                          ELSE Append(c.got, [id |-> r.id,
                                                              opcode |-> r.opcode,
                                                              body |-> r.body]),
                                  err |-> r.err, panic |-> r.panic,
                                  short |-> IF n1 = 0 THEN s1
                                            ELSE s1 + IsShort(stream, c.pos + n1, want, n2)]
    /\ UNCHANGED << progVars, peerVars, histVars, job >>

\* one call of a request writer
EmitRequest ==
    /\ job.kind = "request" /\ res.kind = "none"
    /\ res' = [kind |-> "request", out |-> Emit(job.writer, job.serial).out]
    /\ UNCHANGED << progVars, peerVars, histVars, job >>

NextCodec ==
    \/ EncodeHeader
    \/ DecodeHeader
    \/ EncodeString
    \/ DecodeString
    \/ EncodeBind
    \/ ResolveSocket
    \/ ReadMessage
    \/ EmitRequest

SpecCodec == InitCodec /\ [][NextCodec]_vars

(***************************************************************************)
(* Claims about the codec (checked under SpecCodec)                        *)
(***************************************************************************)
\* C8: header round trip.  For every target, every 16-bit opcode and every
\* bodyLength with 8 + bodyLength <= 65535, decoding the header makeMsgBuf
\* wrote, the way read does, gives back target, opcode and bodyLength.
C8_HeaderRoundTrip ==
    (res.kind = "decoded" /\ HEADER_SIZE + job.bodyLen <= 65535) =>
        /\ Len(res.buf) = HEADER_SIZE
        /\ res.hdr.id = job.target
        /\ res.hdr.opcode = U32(job.opcode)
        /\ res.hdr.bodyLen = U32(job.bodyLen)

\* C8's case: the largest target, opcode and length have been through both
C8_Witness ==
    /\ res.kind = "decoded"
    /\ job.target = [hi |-> 65535, lo |-> 65535]
    /\ job.opcode = 65535
    /\ job.bodyLen = 65527

\* C9: string round trip and padding.  For every byte string s, parseStr on
\* mustBind's encoding of s gives back s, and a count of consumed bytes that
\* is a multiple of 4 and is the number of bytes the encoder wrote.
C9_StringRoundTrip ==
    res.kind = "parsed" =>
        /\ ~res.parsed.panic
        /\ res.parsed.str = job.s
        /\ res.parsed.off % 4 = 0
        /\ res.parsed.off = Len(res.buf)

\* C9's case: a string with a NUL inside, padded, with bytes after it
C9_Witness ==
    /\ res.kind = "parsed"
    /\ job.s = << 97, 0 >>
    /\ job.tail # << >>
    /\ Len(res.buf) = 8

\* the body of a request: what follows the 8 header bytes
Body(bytes) == SubSeq(bytes, HEADER_SIZE + 1, Len(bytes))

\* the bind of the compositor global (name 5, version 4) to id 3 has been written
C10_Case ==
    /\ res.kind = "bind"
    /\ job.g = GCompositor
    /\ job.id = 3

\* C10 as stated: the body is name 5, the length word 13, "wl_compositor",
\* NUL and 2 pad bytes, version 4, new id 3.
C10_Original ==
    C10_Case =>
        Body(res.buf) = PutUint32(U32(5)) \o PutUint32(U32(13)) \o IfaceCompositor
                            \o << 0, 0, 0 >> \o PutUint32(U32(4)) \o PutUint32(U32(3))

\* C10 amended: the length word is 14, the 13 bytes and the NUL; the rest is
\* as stated, 32 body bytes in all.
C10_BindCompositor ==
    C10_Case =>
        /\ Body(res.buf) = PutUint32(U32(5)) \o PutUint32(U32(14)) \o IfaceCompositor
                            \o << 0, 0, 0 >> \o PutUint32(U32(4)) \o PutUint32(U32(3))
        /\ Len(Body(res.buf)) = 32

C10_Witness == C10_Case /\ Len(res.buf) = 40

\* C11: the socket path is the explicit socket if there is one, else the
\* runtime directory joined with the display name if there is one, else the
\* runtime directory joined with "wayland-0"; with XDG_RUNTIME_DIR =
\* /run/user/1000 and nothing else set it is /run/user/1000/wayland-0.
C11_EndpointResolution ==
    (res.kind = "resolved" /\ ~res.r.panic) =>
        /\ res.r.socketPath =
              IF job.socket # << >> THEN job.socket
              ELSE IF job.display # << >> THEN Join(job.dir, job.display)
              ELSE Join(job.dir, DefaultDisplay)
        /\ (job.socket = << >> /\ job.display = << >> /\ job.dir = RunUser1000) =>
              res.r.socketPath = RunUser1000 \o << "/" >> \o DefaultDisplay

\* what read returns for an event
Returned(ev) == [id |-> U32(ev.id), opcode |-> U32(ev.opcode), body |-> ev.body]

\* C21: each call of read consumes one complete message, its 8 header bytes
\* and its size - 8 body bytes, however many bytes each Read returns: the
\* calls so far returned the first messages the peer sent, as sent, the
\* stream stands at the boundary after them, and read fails only at the end
\* of the stream.
C21_WholeMessages ==
    res.kind = "read" =>
        /\ ~res.panic
        /\ Len(res.got) <= Len(job.evs)
        /\ res.got = [i \in 1..Len(res.got) |-> Returned(job.evs[i])]
        /\ res.pos = Len(WireAll(SubSeq(job.evs, 1, Len(res.got))))
        /\ res.err => Len(res.got) = Len(job.evs)

\* the length a request's header declares, and the bytes written
DeclaredLen(bytes) == Shr16(Uint32(bytes, 4))

\* C23: the length in the high 16 bits of the header of every request the
\* client writes is 8 plus the body bytes written: for each request writer,
\* and for mustBind with every interface string.
C23_DeclaredLength ==
    /\ res.kind = "request" =>
          /\ Len(res.out) = 1
          /\ res.out[1].kind = job.writer
          /\ Len(res.out[1].bytes) >= HEADER_SIZE
          /\ DeclaredLen(res.out[1].bytes) = U32(Len(res.out[1].bytes))
    /\ res.kind = "bind" =>
          /\ Len(res.buf) = HEADER_SIZE + 4 * WORD_SIZE + Len(bindString(job.g.iface)) - 4
          /\ DeclaredLen(res.buf) = U32(Len(res.buf))

\* C23's case: create_buffer, the longest fixed request, has been written
C23_Witness ==
    /\ res.kind = "request"
    /\ job.writer = "create_buffer"
    /\ Len(res.out[1].bytes) = HEADER_SIZE + 6 * WORD_SIZE

\* C13: makeMsgBuf produces no header when 8 + dataLen is above 65535, and
\* the 16-bit length field of every header it produces is 8 + dataLen.
C13_LengthGuarded ==
    res.kind \in {"header", "decoded"} =>
        /\ HEADER_SIZE + job.bodyLen <= 65535
        /\ Shr16(Uint32(res.buf, 4)) = U32(HEADER_SIZE + job.bodyLen)

(***************************************************************************)
(* Claims about the client (checked under Spec)                            *)
(***************************************************************************)
Kinds(reqs) == [i \in DOMAIN reqs |-> reqs[i].kind]

\* the requests of one kind written before position k
Before(reqs, k, kind) == {i \in 1..(k - 1) : reqs[i].kind = kind}

\* C1: every xdg_surface configure with serial S read once the shell surface
\* exists is followed by exactly one ack_configure carrying S, written before
\* any later commit: no commit is written while a configure read earlier is
\* unacknowledged, no ack is written but for a configure read and not yet
\* acknowledged, and none is left unacknowledged when the client ends.
C1_ConfigureAcked ==
    /\ \A k \in DOMAIN out :
         out[k].kind = "commit" =>
            cfgPending \subseteq SerialsOf(SubSeq(out, 1, k - 1), "ack_configure")
    /\ \A k \in DOMAIN out :
         out[k].kind = "ack_configure" =>
            /\ Nat32(Uint32(out[k].bytes, 8)) \in cfgPending
            /\ \A j \in Before(out, k, "ack_configure") : out[j].bytes # out[k].bytes
    /\ pc = "done" => ConfiguresOpen = {}

\* C2: every xdg_wm_base ping with serial S read once the window manager is
\* bound is followed by exactly one pong carrying S, and no pong is written
\* that answers no ping.
C2_PingPonged ==
    /\ \A k \in DOMAIN out :
         out[k].kind = "pong" =>
            /\ Nat32(Uint32(out[k].bytes, 8)) \in pingPending
            /\ \A j \in Before(out, k, "pong") : out[j].bytes # out[k].bytes
    /\ pc = "done" => PingsOpen = {}

\* C3: a wl_display error event read in any of the three loops is fatal: the
\* client has aborted when the step ends and has written nothing.
C3_DisplayErrorFatal ==
    (lastEv # NoEvent /\ lastEv.id = WLDisplayID /\ lastEv.opcode = 0) =>
        (pc \in {"exit1", "panic"} /\ out = << >>)

\* C4: regObj never returns an id whose slot was occupied, nor an id it has
\* returned before and nothing has freed since.
C4_IdsNotShared ==
    \A k \in DOMAIN allocs : ~allocs[k].occupied /\ ~allocs[k].again

\* C5: slot 1 stays the display and slot 2 the registry, and regObj never
\* returns 1 or 2.
C5_SingletonsReserved ==
    /\ objects[WLDisplayID] = objWLDisplay
    /\ objects[WLRegistryID] = objWLRegistry
    /\ \A k \in DOMAIN allocs : allocs[k].id \notin {WLDisplayID, WLRegistryID}

\* C6: regObj called on a full table aborts the client: nothing is written
\* after the call.
C6_ExhaustionFatal ==
    \A k \in DOMAIN allocs :
        allocs[k].full => (pc = "panic" /\ Len(out) = allocs[k].at)

\* a frame-callback completion was read in loop3 of the frame-driven variant
C7_Case ==
    /\ variant = "frame"
    /\ lastEv # NoEvent
    /\ lastEv.phase = "loop3"
    /\ "frame" \in lastEv.roles

\* C7: in loop3 of the frame-driven variant a frame-callback completion is
\* answered by exactly one frame request, with a newly allocated callback id,
\* written before the commit; every commit is written after exactly one frame
\* request of the same step and no frame request is written without a commit.
C7_FramePacing ==
    /\ C7_Case =>
          /\ Kinds(out) = << "frame", "attach", "damage", "commit" >>
          /\ Len(allocs) = 1
          /\ ~allocs[1].full /\ ~allocs[1].again
          /\ allocs[1].type = objWLCallback
          /\ Uint32(out[1].bytes, 8) = U32(allocs[1].id)
          /\ WLFrameCallbackID = allocs[1].id
    /\ variant = "frame" =>
          \A k \in DOMAIN out :
             /\ out[k].kind = "commit" => Cardinality(Before(out, k, "frame")) = 1
             /\ out[k].kind = "frame" => Count(out, "commit") = 1

\* the event is wl_display.delete_id naming the id x
IsDeleteOf(ev, x) ==
    /\ ev # NoEvent
    /\ ev.id = WLDisplayID
    /\ ev.opcode = 1
    /\ ev.body = PutUint32(U32(x))

\* no slot below x is free
NoLowerFree(objs, x) == \A j \in 1..(x - 1) : objs[j] # objNone

\* the step reads a delete_id that names the live sync callback
C12_DeleteStep ==
    /\ pc \in {"loop", "loop2"}
    /\ callbackID < TableLen
    /\ objects[callbackID] = objWLCallback
    /\ IsDeleteOf(lastEv', callbackID)

\* the step makes the first regObj call after such a delete_id
C12_AllocStep ==
    /\ IsDeleteOf(lastEv, callbackID)
    /\ lastEv.phase \in {"loop", "loop2"}
    /\ callbackID < TableLen
    /\ objects[callbackID] = objNone
    /\ allocs' # << >>

\* C12: a delete_id naming a live sync callback resets that slot to none and
\* leaves every other slot as it was; the next regObj call returns no higher
\* id, and returns that id when no lower slot is free.
C12_DeleteFreesCallback ==
    [][/\ C12_DeleteStep =>
            /\ objects' = [objects EXCEPT ![callbackID] = objNone]
            /\ pc' = pc
       /\ C12_AllocStep =>
            /\ allocs'[1].id <= callbackID
            /\ NoLowerFree(objects, callbackID) => allocs'[1].id = callbackID
            /\ ~allocs'[1].occupied]_vars

\* C12's case: the second sync callback was deleted by the peer and its id
\* was handed out again, to the first frame callback
C12_Witness ==
    /\ nDel >= 1
    /\ pc = "loop3"
    /\ allocs # << >>
    /\ allocs[1].id = callbackID
    /\ allocs[1].type = objWLCallback
    /\ callbackID < TableLen
    /\ WLFrameCallbackID = callbackID

\* the last step read an xdg_surface configure in loop3
C14_Case ==
    /\ lastEv # NoEvent
    /\ lastEv.phase = "loop3"
    /\ "xdg_surface" \in lastEv.roles
    /\ lastEv.opcode = 0

\* C14: on each configure read in loop3 the first request written is
\* ack_configure with the event's serial; attach, damage, commit follow the
\* ack of the first configure, and nothing follows the ack of a later one.
C14_AckThenInitialFrame ==
    C14_Case =>
        /\ out # << >>
        /\ out[1].kind = "ack_configure"
        /\ HasUint32(lastEv.body, 0)
        /\ Uint32(out[1].bytes, 8) = Uint32(lastEv.body, 0)
        /\ Kinds(out) = IF configured THEN << "ack_configure" >>
                        ELSE << "ack_configure", "attach", "damage", "commit" >>

\* the last step retired a completed frame callback and mustFrame gave its id
\* to the next one; this step reads the peer's delete_id for the completed one
C15_DoneThenDelete ==
    /\ variant = "frame"
    /\ pc = "loop3"
    /\ lastEv # NoEvent
    /\ lastEv.phase = "loop3"
    /\ "frame" \in lastEv.roles
    /\ allocs # << >>
    /\ allocs[1].id = lastEv.id
    /\ WLFrameCallbackID = lastEv.id
    /\ objects[lastEv.id] = objWLCallback
    /\ IsDeleteOf(lastEv', lastEv.id)

\* C15: a callback's slot is freed once, by delete_id or by local retirement
\* and not by both: the delete_id that follows the done of a frame callback
\* does not reset the slot, which by then belongs to a newer callback.
C15_FreedOnce ==
    [][C15_DoneThenDelete => objects'[lastEv.id] = objWLCallback]_vars

\* the ids the client holds for objects it still uses, each with the type it
\* was allocated with (an id variable that is 0 holds nothing)
Held ==
    { h \in
        {<< WLCompositorID, objWLCompositor >>, << WLShmID, objWLShm >>,
         << WLOutputID, objWLOutput >>, << XDGWMBaseID, objXDGWMBase >>,
         << ZWLRLayerShellID, objZWLRLayerShell >>, << WLSurfaceID, objWLSurface >>,
         << XDGSurfaceID, objXDGSurface >>, << XDGTopLevelID, objXDGTopLevel >>,
         << WLShmPoolID, objWLShmPool >>, << WLBufferID, objWLBuffer >>}
        \cup (IF pc \in {"loop", "loop2"} THEN {<< callbackID, objWLCallback >>} ELSE {})
        \cup (IF variant = "frame" /\ pc = "loop3"
              THEN {<< WLFrameCallbackID, objWLCallback >>} ELSE {})
      : h[1] # 0 }

\* C16: while the client runs, every id it holds for an object it still uses
\* has a slot, and the slot's type is the type the object was allocated with.
C16_HeldIdsLive ==
    pc \in {"loop", "loop2", "loop3"} =>
        \A h \in Held : h[1] < TableLen /\ objects[h[1]] = h[2]

IsPrefix(a, b) == Len(a) <= Len(b) /\ a = SubSeq(b, 1, Len(a))

\* the requests of SurfaceInit, in the order the claim gives
SurfaceInitKinds ==
    << "create_surface", "get_xdg_surface", "get_toplevel", "create_pool",
       "create_buffer", "sync" >>

SurfaceKindSet == {SurfaceInitKinds[i] : i \in 1..5}

FrameKindSet == {"frame", "attach", "damage", "commit"}

\* C17: get_registry and sync are written first; no SurfaceInit request is
\* written before an event of the first sync callback is read; when it is
\* read, create_surface, get_xdg_surface, get_toplevel, create_pool,
\* create_buffer, sync are written in that order (as far as the client gets,
\* if an OS call fails); no frame, attach, damage or commit is written before
\* an event of the second sync callback is read.
C17_PhaseOrdering ==
    /\ (pc = "loop" /\ lastEv = NoEvent) => Kinds(out) = << "get_registry", "sync" >>
    /\ (lastEv # NoEvent /\ lastEv.phase = "loop") =>
          /\ \A k \in DOMAIN out : out[k].kind \notin FrameKindSet
          /\ "callback" \notin lastEv.roles =>
                \A k \in DOMAIN out : out[k].kind \notin SurfaceKindSet
          /\ "callback" \in lastEv.roles => IsPrefix(Kinds(out), SurfaceInitKinds)
          /\ pc = "loop2" => Kinds(out) = SurfaceInitKinds
    /\ (lastEv # NoEvent /\ lastEv.phase = "loop2") =>
          /\ \A k \in DOMAIN out : out[k].kind \notin SurfaceKindSet
          /\ "callback" \notin lastEv.roles =>
                \A k \in DOMAIN out : out[k].kind \notin FrameKindSet

\* C17's case: the first sync callback's event was read and SurfaceInit ran
\* to its end
C17_Witness ==
    /\ pc = "loop2"
    /\ lastEv # NoEvent
    /\ lastEv.phase = "loop"
    /\ "callback" \in lastEv.roles
    /\ Len(out) = 6
    /\ out[6].kind = "sync"

\* the step reads the registry's global event for the next global the peer
\* announces, in the discovery loop
C18_Step ==
    /\ pc = "loop"
    /\ announce # << >>
    /\ lastEv' # NoEvent
    /\ lastEv'.id = WLRegistryID
    /\ lastEv'.opcode = 0
    /\ lastEv'.body = EvGlobal(Head(announce)).body

\* the allowlist as the claim gives it: the object type bound for an interface
AllowType(iface) ==
    CASE iface = IfaceCompositor -> objWLCompositor
      [] iface = IfaceShm -> objWLShm
      [] iface = IfaceOutput -> objWLOutput
      [] iface = IfaceWMBase -> objXDGWMBase
      [] iface = IfaceLayerShell -> objZWLRLayerShell
      [] OTHER -> objNone

\* the allowlist of the variant that runs: the second variant has no case for
\* wl_output and zwlr_layer_shell_v1
VariantAllowType(iface) ==
    IF variant = "plain" /\ iface \in {IfaceOutput, IfaceLayerShell}
    THEN objNone ELSE AllowType(iface)

\* the id variables of the globals
BoundIds == << WLCompositorID, WLShmID, WLOutputID, XDGWMBaseID, ZWLRLayerShellID >>

\* what the step did for global g, to be bound as type t (objNone: ignored):
\* one regObj call of type t and then one bind request to the registry with
\* g's name, interface and version and the id regObj returned; or nothing
BoundOrIgnored(g, t) ==
    IF t # objNone
    THEN /\ Len(allocs') = 1
         /\ allocs'[1].type = t
         /\ allocs'[1].at = 0
         /\ Kinds(out') = << "bind" >>
         /\ LET b == out'[1].bytes
                n == Len(b)
            IN  /\ readHeader(SubSeq(b, 1, HEADER_SIZE)) =
                      [id |-> U32(WLRegistryID), opcode |-> U32(0),
                       bodyLen |-> U32(n - HEADER_SIZE)]
                /\ Uint32(b, 8) = U32(g.name)
                /\ parseStr(Slice(b, 12, n)).str = g.iface
                /\ Uint32(b, n - 8) = U32(g.ver)
                /\ Uint32(b, n - 4) = U32(allocs'[1].id)
    ELSE /\ allocs' = << >>
         /\ out' = << >>
         /\ objects' = objects
         /\ BoundIds' = BoundIds

\* C18 as stated: compositor, shared memory, output, window-manager base and
\* layer shell are each bound with one new object of the matching type, any
\* other interface is ignored.
C18_Original ==
    [][C18_Step =>
          LET g == Head(announce)
          IN  /\ BoundOrIgnored(g, AllowType(g.iface))
              /\ allocs' # << >> => ~allocs'[1].full /\ ~allocs'[1].occupied]_vars

\* C18 amended: the allowlist is the variant's own, and the object is new
\* when the table has a free slot: then the slot was free and now has the
\* type, and no other slot changes; on a full table regObj returns the
\* table's length, no slot changes, and the bind is written all the same.
C18_BindPerGlobal ==
    [][C18_Step =>
          LET g == Head(announce)
              t == VariantAllowType(g.iface)
          IN  /\ BoundOrIgnored(g, t)
              /\ t # objNone =>
                    LET id == allocs'[1].id
                    IN  IF allocs'[1].full
                        THEN id = TableLen /\ objects' = objects
                        ELSE /\ objects[id] = objNone
                             /\ NoLowerFree(objects, id)
                             /\ objects' = [objects EXCEPT ![id] = t]]_vars

\* C18's case: the second variant has read the window-manager global and
\* written its bind
C18_Witness ==
    /\ variant = "plain"
    /\ lastEv # NoEvent
    /\ lastEv.phase = "loop"
    /\ lastEv.body = EvGlobal(GWMBase).body
    /\ Kinds(out) = << "bind" >>
    /\ allocs # << >>
    /\ allocs[1].type = objXDGWMBase
    /\ XDGWMBaseID = allocs[1].id

\* the event is xdg_toplevel.close: opcode 1 on the toplevel's id
IsClose(ev) == "toplevel" \in ev.roles /\ ev.opcode = 1

\* the event is wl_display.error
IsDisplayError(ev) == ev.id = WLDisplayID /\ ev.opcode = 0

\* C19: loop3 ends exactly when xdg_toplevel.close is read: the client then
\* writes nothing and takes no further step, and no other event that is not
\* a display error takes the client out of loop3.
C19_CloseEndsLoop ==
    [][/\ (pc = "loop3" /\ lastEv' # NoEvent) =>
             /\ IsClose(lastEv') => (pc' = "done" /\ out' = << >>)
             /\ (~IsClose(lastEv') /\ ~IsDisplayError(lastEv')) => pc' = "loop3"
       /\ pc = "done" => UNCHANGED vars]_vars

\* the opcodes the client handles for an object of each role; it handles
\* every event of a frame callback
HandledOpcodes(role) ==
    CASE role = "display" -> {0, 1}
      [] role = "registry" -> {0}
      [] role = "callback" -> {0}
      [] role = "wm_base" -> {0}
      [] role = "xdg_surface" -> {0}
      [] role = "toplevel" -> {1}
      [] OTHER -> 0..65535

\* the event targets a known object and its opcode is one the client handles
\* for no object the id names
IsUnhandled(ev) ==
    /\ ev # NoEvent
    /\ ev.roles \cap {"registry", "callback", "wm_base", "xdg_surface", "toplevel"} # {}
    /\ \A role \in ev.roles : ev.opcode \notin HandledOpcodes(role)

IdVars ==
    << callbackID, WLCompositorID, WLShmID, WLShmPoolID, WLOutputID, WLBufferID,
       WLSurfaceID, XDGWMBaseID, XDGSurfaceID, XDGTopLevelID, ZWLRLayerShellID,
       WLFrameCallbackID >>

\* C20: an event on a known object with an opcode the client does not handle
\* for it is ignored: nothing is written, the object table and the id
\* variables stay as they are, and the client stays in the loop it is in.
C20_UnknownOpcodeIgnored ==
    [][(pc \in {"loop", "loop2", "loop3"} /\ IsUnhandled(lastEv')) =>
          /\ out' = << >>
          /\ objects' = objects
          /\ IdVars' = IdVars
          /\ pc' = pc]_vars

\* C22: every request the client writes is addressed to an id that is not 0
\* and whose slot holds an object as the request is written.
C22_TargetsLive ==
    \A k \in DOMAIN out :
        /\ Uint32(out[k].bytes, 0) # U32(0)
        /\ out[k].targetType # objNone

====
